---- MODULE Spec2Model ----
(***************************************************************************)
(* Model of streamlit_authenticator/authenticate.py, class Authenticate:   *)
(* the credentials store, the preauthorized list, the session-status       *)
(* record (st.session_state), the reauthentication cookie held by the      *)
(* client, and the five widgets login, logout, reset_password,             *)
(* register_user and forgot_password.  Each widget call is one action.     *)
(*                                                                         *)
(* Python strings are sequences of characters (so that str.lower() is      *)
(* computed), Python's None for a string is the value None below, an       *)
(* optional object (the cookie, the preauthorized dict, a decoded token)   *)
(* is a sequence of length 0 or 1.  Time is counted in days.               *)
(*                                                                         *)
(* Every widget is a function <widget>_result of the state and of the form *)
(* values, and its action assigns what the function returns; the claims    *)
(* quantify over the form values in every reachable state.  login and      *)
(* logout read the store and never write it; reset_password, register_user *)
(* and forgot_password neither read nor write the session, the cookie or   *)
(* the clock.  Spec composes all widgets; SpecSession and SpecStore run    *)
(* the two groups apart, each over every store the constructor can leave.  *)
(***************************************************************************)
EXTENDS Integers, Sequences, FiniteSets, TLC

\* ------------------------------------------------------------------ bounds
MaxTime == 3
ExpiryDays == 2

\* --------------------------------------------------------------- constants
None == <<"None">>
Key == "key"
OtherKey == "other-key"
Salts == {1, 2}
GenSalts == {2}
InvalidHash == [salt |-> 0, digest |-> <<>>]

\* ------------------------------------------------------------ input values
Usernames == {<<>>, <<"A">>, <<"b">>}
Passwords == {<<>>, <<"p">>, <<"q">>}
Names == {<<>>, <<"N">>}
Emails == {<<"e">>, <<"f">>}
RandomPasswords == {<<"r">>, <<"q">>}
Locations == {"main", "sidebar", "top"}
\* a new password and its repetition: nothing entered, equal, different,
\* only the repetition entered
PasswordPairs ==
    { <<<<>>, <<>>>>, <<<<"p">>, <<"p">>>>, <<<<"q">>, <<"q">>>>,
      <<<<"p">>, <<"q">>>>, <<<<>>, <<"p">>>> }

VARIABLES credentials, preauthorized, session_state, cookie, now,
          random_password, call

vars == <<credentials, preauthorized, session_state, cookie, now,
          random_password, call>>

\* ----------------------------------------------------------------- helpers
\* str.lower() on one character
LowerChar(c) == CASE c = "A" -> "a" [] c = "B" -> "b" [] OTHER -> c

\* faulty variant of Lower: the username is used as typed
Lower_as_typed(s) == s

\* str.lower()
Lower(s) == [i \in 1..Len(s) |-> LowerChar(s[i])]

\* bcrypt digest of a password under a salt
Digest(salt, pw) == <<salt, pw>>

\* Hasher([pw]).generate()[0] with the salt bcrypt.gensalt() drew
Hasher(salt, pw) == [salt |-> salt, digest |-> Digest(salt, pw)]

\* bcrypt.checkpw raises ValueError on a stored value that is no bcrypt hash
checkpw_raises(hashed) == hashed.salt \notin Salts

checkpw(pw, hashed) == hashed.digest = Digest(hashed.salt, pw)

\* a form field the widget does not come to read is left at its default
\* ('' for a text input, not pressed for a button)
Unread(read, fields) == read \/ \A f \in fields : f = <<>>

NotPressed(read, button) == read \/ ~button

\* faulty variant of valid_location: every location is accepted
valid_location_any(location) == TRUE

\* the location test every widget starts with
valid_location(location) == location \in {"main", "sidebar"}

\* faulty variant of Truthy: no value counts as true
Truthy_never(v) == FALSE

\* Python truthiness of st.session_state['authentication_status'] / ['logout']
Truthy(v) == v = "True"

\* --------------------------------------------------------------- the token
\* faulty variant of _set_exp_date: the expiry horizon is not added
_set_exp_date_now(t) == t

_set_exp_date(t) == t + ExpiryDays

\* jwt.encode(payload, key, 'HS256')
_token_encode(ss, exp_date) ==
    [wellformed |-> TRUE, key |-> Key,
     payload |-> [name |-> ss.name, username |-> ss.username, exp_date |-> exp_date]]

\* jwt.decode(token, key, ['HS256']); <<>> stands for the False of the except branch
_token_decode(token) ==
    IF token.wellformed /\ token.key = Key THEN <<token.payload>> ELSE <<>>

\* faulty variant of exp_date_ok: a token is still accepted at its expiry time
exp_date_ok_inclusive(exp_date, t) == exp_date >= t

\* the expiry test of _check_cookie
exp_date_ok(exp_date, t) == exp_date > t

\* _check_cookie: the session state it leaves and the exception it raises
_check_cookie(ss, ck, t) ==
    IF Len(ck) = 0 THEN [ss |-> ss, raised |-> ""]
    ELSE LET decoded == _token_decode(ck[1]) IN
         IF Len(decoded) = 0 THEN [ss |-> ss, raised |-> ""]
         ELSE LET token == decoded[1] IN
              IF Truthy(ss.logout) THEN [ss |-> ss, raised |-> ""]
              ELSE IF "exp_date" \notin DOMAIN token THEN [ss |-> ss, raised |-> "KeyError"]
              ELSE IF ~exp_date_ok(token.exp_date, t) THEN [ss |-> ss, raised |-> ""]
              ELSE IF "username" \notin DOMAIN token THEN [ss |-> ss, raised |-> ""]
              ELSE IF "name" \notin DOMAIN token THEN [ss |-> ss, raised |-> "KeyError"]
              ELSE [ss |-> [ss EXCEPT !.name = token.name,
                                      !.username = token.username,
                                      !.authentication_status = "True"],
                    raised |-> ""]

\* ---------------------------------------------------------- credentials
\* faulty variant of _check_pw: the password is not compared with the hash
_check_pw_any_password(creds, username, password) ==
    IF checkpw_raises(creds[username].password) THEN "raised" ELSE "True"

\* _check_pw under the try of _check_credentials:
\* "True", "False", or "raised" when bcrypt.checkpw raised
_check_pw(creds, username, password) ==
    IF checkpw_raises(creds[username].password) THEN "raised"
    ELSE IF checkpw(password, creds[username].password) THEN "True"
    ELSE "False"

\* faulty variant of _check_credentials_bool: an exception of the check counts
\* as a verified password
_check_credentials_bool_raise_passes(creds, username, password) ==
    IF username \in DOMAIN creds
    THEN LET r == _check_pw(creds, username, password) IN
         IF r = "raised" THEN "True" ELSE r
    ELSE "False"

\* _check_credentials(inplace=False): "True", "False", or "None" when the
\* exception was swallowed and the function fell off its end
_check_credentials_bool(creds, username, password) ==
    IF username \in DOMAIN creds
    THEN LET r == _check_pw(creds, username, password) IN
         IF r = "raised" THEN "None" ELSE r
    ELSE "False"

\* _check_credentials(inplace=True): the session state and the cookie it leaves
_check_credentials(creds, ss, ck, username, password, t) ==
    IF username \in DOMAIN creds
    THEN LET r == _check_pw(creds, username, password) IN
         IF r = "True"
         THEN LET ss1 == [ss EXCEPT !.name = creds[username].name]
                  exp_date == _set_exp_date(t)
                  token == _token_encode(ss1, exp_date)
              IN [ss |-> [ss1 EXCEPT !.authentication_status = "True"],
                  cookie |-> <<token>>]
         ELSE IF r = "False"
         THEN [ss |-> [ss EXCEPT !.authentication_status = "False"], cookie |-> ck]
         ELSE [ss |-> ss, cookie |-> ck]
    ELSE [ss |-> [ss EXCEPT !.authentication_status = "False"], cookie |-> ck]

\* ------------------------------------------------------------ call record
\* The widget last called and its outcome: whether its button was pressed,
\* whether it asked the cookie manager for the cookie, the exception it raised,
\* the status text it displayed, what it returned.
NoCall ==
    [op |-> "__init__", submit |-> FALSE, cookie_read |-> FALSE, raised |-> "",
     status |-> "", ret |-> <<>>]

\* st.session_state as __init__ fills it in a fresh session
NewSessionState ==
    [name |-> None, authentication_status |-> "None", username |-> None,
     logout |-> "None"]

\* ------------------------------------------------------------ __init__
\* the three users the embedding application may configure
UserX == [name |-> <<"X">>, password |-> Hasher(1, <<"p">>), email |-> <<"e">>]

UserY == [name |-> <<"Y">>, password |-> Hasher(2, <<"q">>), email |-> <<"f">>]

UserZ == [name |-> <<"Z">>, password |-> InvalidHash, email |-> <<"f">>]

\* credentials['usernames'] as the caller may pass it, keys in any case
CallerCredentials ==
    { (<<"A">> :> UserX),
      (<<"A">> :> UserX) @@ (<<"a">> :> UserZ),
      (<<"a">> :> UserX) @@ (<<"B">> :> UserY) }

\* preauthorized as the caller may pass it: None (the default) or
\* {'emails': [...]}, a list that may name an email twice
CallerPreauthorized ==
    { <<>>, << <<>> >>, << << <<"e">> >> >>, << << <<"e">>, <<"f">> >> >>,
      << << <<"e">>, <<"e">> >> >> }

\* {key.lower(): value for key, value in credentials['usernames'].items()}:
\* of two keys that lowercase to the same key, the one iterated last stays
LowerKeys(raw) ==
    LET keys == {Lower(k) : k \in DOMAIN raw} IN
    { c \in [keys -> {raw[k] : k \in DOMAIN raw}] :
        \A k \in keys : \E r \in DOMAIN raw : Lower(r) = k /\ c[k] = raw[r] }

Init ==
    /\ \E raw \in CallerCredentials : credentials \in LowerKeys(raw)
    /\ preauthorized \in CallerPreauthorized
    /\ session_state = NewSessionState
    /\ cookie = <<>>
    /\ now = 0
    /\ random_password = None
    /\ call = NoCall

\* --------------------------------------------------------------- login
\* faulty variant of login_result: a cookie is accepted only for a user of
\* the store
login_result_cookie_needs_user(creds, ss, ck, t, location, submit, username_in, password) ==
    LET c0 == [NoCall EXCEPT !.op = "login"] IN
    IF ~valid_location(location)
    THEN [ss |-> ss, cookie |-> ck, call |-> [c0 EXCEPT !.raised = "ValueError"]]
    ELSE IF Truthy(ss.authentication_status)
    THEN [ss |-> ss, cookie |-> ck,
          call |-> [c0 EXCEPT !.ret = <<ss.name, ss.authentication_status, ss.username>>]]
    ELSE LET cc0 == _check_cookie(ss, ck, t)
             cc == IF cc0.raised = "" /\ cc0.ss.authentication_status = "True"
                      /\ cc0.ss.username \notin DOMAIN creds
                   THEN [ss |-> ss, raised |-> ""] ELSE cc0
             c1 == [c0 EXCEPT !.cookie_read = TRUE] IN
         IF cc.raised # ""
         THEN [ss |-> ss, cookie |-> ck, call |-> [c1 EXCEPT !.raised = cc.raised]]
         ELSE IF cc.ss.authentication_status = "True"
         THEN [ss |-> cc.ss, cookie |-> ck,
               call |-> [c1 EXCEPT !.ret = <<cc.ss.name, cc.ss.authentication_status,
                                             cc.ss.username>>]]
         ELSE LET username == Lower(username_in)
                  ss1 == [cc.ss EXCEPT !.username = username]
                  r == IF submit
                       THEN _check_credentials(creds, ss1, ck, username, password, t)
                       ELSE [ss |-> ss1, cookie |-> ck]
                  status == CASE r.ss.authentication_status = "False"
                                   -> "Username/password is incorrect"
                              [] r.ss.authentication_status = "None"
                                   -> "Please enter your username and password"
                              [] OTHER -> ""
              IN [ss |-> r.ss, cookie |-> r.cookie,
                  call |-> [c1 EXCEPT !.submit = submit, !.status = status,
                                      !.ret = <<r.ss.name, r.ss.authentication_status,
                                                r.ss.username>>]]

\* login(form_name, location): the state it leaves and its outcome
login_result(creds, ss, ck, t, location, submit, username_in, password) ==
    LET c0 == [NoCall EXCEPT !.op = "login"] IN
    IF ~valid_location(location)
    THEN [ss |-> ss, cookie |-> ck, call |-> [c0 EXCEPT !.raised = "ValueError"]]
    ELSE IF Truthy(ss.authentication_status)
    THEN [ss |-> ss, cookie |-> ck,
          call |-> [c0 EXCEPT !.ret = <<ss.name, ss.authentication_status, ss.username>>]]
    ELSE LET cc == _check_cookie(ss, ck, t)
             c1 == [c0 EXCEPT !.cookie_read = TRUE] IN
         IF cc.raised # ""
         THEN [ss |-> ss, cookie |-> ck, call |-> [c1 EXCEPT !.raised = cc.raised]]
         ELSE IF cc.ss.authentication_status = "True"
         THEN [ss |-> cc.ss, cookie |-> ck,
               call |-> [c1 EXCEPT !.ret = <<cc.ss.name, cc.ss.authentication_status,
                                             cc.ss.username>>]]
         ELSE LET username == Lower(username_in)
                  ss1 == [cc.ss EXCEPT !.username = username]
                  r == IF submit
                       THEN _check_credentials(creds, ss1, ck, username, password, t)
                       ELSE [ss |-> ss1, cookie |-> ck]
                  status == CASE r.ss.authentication_status = "False"
                                   -> "Username/password is incorrect"
                              [] r.ss.authentication_status = "None"
                                   -> "Please enter your username and password"
                              [] OTHER -> ""
              IN [ss |-> r.ss, cookie |-> r.cookie,
                  call |-> [c1 EXCEPT !.submit = submit, !.status = status,
                                      !.ret = <<r.ss.name, r.ss.authentication_status,
                                                r.ss.username>>]]

\* the values the login form can hand to login
LoginInputs ==
    { i \in [location : Locations, submit : BOOLEAN, username : Usernames,
             password : Passwords] :
        /\ NotPressed(valid_location(i.location), i.submit)
        /\ Unread(valid_location(i.location), {i.username})
        /\ Unread(i.submit, {i.password}) }

login ==
    \E i \in LoginInputs :
      LET r == login_result(credentials, session_state, cookie, now,
                            i.location, i.submit, i.username, i.password) IN
      /\ session_state' = r.ss
      /\ cookie' = r.cookie
      /\ call' = r.call
      /\ UNCHANGED <<credentials, preauthorized, now, random_password>>

\* --------------------------------------------------------------- logout
\* faulty variant of logout_session: the username is not cleared
logout_session_keeps_username(ss) ==
    [ss EXCEPT !.logout = "True", !.name = None, !.authentication_status = "None"]

\* what the pressed button does to st.session_state
logout_session(ss) ==
    [ss EXCEPT !.logout = "True", !.name = None, !.username = None,
               !.authentication_status = "None"]

\* cookie_manager.delete(cookie_name)
cookie_delete(ck) == <<>>

\* faulty variant of logout_result: rendering the button logs the user out
\* whether or not it is pressed
logout_result_unpressed_clears(ss, ck, location, pressed) ==
    LET c0 == [NoCall EXCEPT !.op = "logout"] IN
    IF ~valid_location(location)
    THEN [ss |-> ss, cookie |-> ck, call |-> [c0 EXCEPT !.raised = "ValueError"]]
    ELSE [ss |-> logout_session(ss), cookie |-> cookie_delete(ck),
          call |-> [c0 EXCEPT !.submit = pressed]]

\* logout(button_name, location): the state it leaves and its outcome
logout_result(ss, ck, location, pressed) ==
    LET c0 == [NoCall EXCEPT !.op = "logout"] IN
    IF ~valid_location(location)
    THEN [ss |-> ss, cookie |-> ck, call |-> [c0 EXCEPT !.raised = "ValueError"]]
    ELSE IF pressed
    THEN [ss |-> logout_session(ss), cookie |-> cookie_delete(ck),
          call |-> [c0 EXCEPT !.submit = TRUE]]
    ELSE [ss |-> ss, cookie |-> ck, call |-> c0]

LogoutInputs ==
    { i \in [location : Locations, pressed : BOOLEAN] :
        NotPressed(valid_location(i.location), i.pressed) }

logout ==
    \E i \in LogoutInputs :
      LET r == logout_result(session_state, cookie, i.location, i.pressed) IN
      /\ session_state' = r.ss
      /\ cookie' = r.cookie
      /\ call' = r.call
      /\ UNCHANGED <<credentials, preauthorized, now, random_password>>

\* ------------------------------------------------------- reset_password
\* faulty variant of passwords_match: the repetition is not compared
passwords_match_always(new_password, new_password_repeat) == TRUE

\* new_password == new_password_repeat
passwords_match(new_password, new_password_repeat) == new_password = new_password_repeat

\* faulty variant of _update_password: the current password is not verified
_update_password_no_recheck(creds, username, password, new_password, new_password_repeat, salt) ==
    IF username \in DOMAIN creds
    THEN IF Len(new_password) > 0
         THEN IF passwords_match(new_password, new_password_repeat)
              THEN [creds |-> [creds EXCEPT ![username].password = Hasher(salt, new_password)],
                    status |-> "Password reset successfully"]
              ELSE [creds |-> creds, status |-> "Passwords do not match"]
         ELSE [creds |-> creds, status |-> "Please enter a new password"]
    ELSE [creds |-> creds, status |-> "Username/password is incorrect"]

\* _update_password: the store it leaves and the status it returns
_update_password(creds, username, password, new_password, new_password_repeat, salt) ==
    IF _check_credentials_bool(creds, username, password) = "True"
    THEN IF Len(new_password) > 0
         THEN IF passwords_match(new_password, new_password_repeat)
              THEN [creds |-> [creds EXCEPT ![username].password = Hasher(salt, new_password)],
                    status |-> "Password reset successfully"]
              ELSE [creds |-> creds, status |-> "Passwords do not match"]
         ELSE [creds |-> creds, status |-> "Please enter a new password"]
    ELSE [creds |-> creds, status |-> "Username/password is incorrect"]

\* reset_password(form_name, location): the store it leaves and its outcome
reset_password_result(creds, location, submit, username_in, password, new_password, new_password_repeat, salt) ==
    LET c0 == [NoCall EXCEPT !.op = "reset_password"]
        username == Lower(username_in)
    IN
    IF ~valid_location(location)
    THEN [creds |-> creds, call |-> [c0 EXCEPT !.raised = "ValueError"]]
    ELSE IF submit
    THEN LET r == _update_password(creds, username, password, new_password,
                                   new_password_repeat, salt)
         IN [creds |-> r.creds, call |-> [c0 EXCEPT !.submit = TRUE, !.status = r.status]]
    ELSE [creds |-> creds, call |-> c0]

ResetInputs ==
    { i \in [location : Locations, submit : BOOLEAN, username : Usernames,
             password : Passwords, new_password : Passwords,
             new_password_repeat : Passwords] :
        /\ NotPressed(i.location = "main", i.submit)
        /\ <<i.new_password, i.new_password_repeat>> \in PasswordPairs
        /\ Unread(i.submit, {i.username, i.password, i.new_password,
                             i.new_password_repeat}) }

reset_password ==
    \E i \in ResetInputs, salt \in GenSalts :
      LET r == reset_password_result(credentials, i.location, i.submit, i.username,
                                     i.password, i.new_password, i.new_password_repeat,
                                     salt) IN
      /\ credentials' = r.creds
      /\ call' = r.call
      /\ UNCHANGED <<preauthorized, session_state, cookie, now, random_password>>

\* -------------------------------------------------------- register_user
\* list.remove(x): drops the first occurrence of x
Remove(list, x) ==
    LET i == CHOOSE j \in 1..Len(list) :
                 list[j] = x /\ \A k \in 1..(j - 1) : list[k] # x
    IN SubSeq(list, 1, i - 1) \o SubSeq(list, i + 1, Len(list))

\* x in list
Contains(list, x) == \E i \in 1..Len(list) : list[i] = x

\* faulty variant of fields_entered: only the username is required
fields_entered_username_only(new_username, new_name, new_password) ==
    Len(new_username) # 0

\* the emptiness test at the head of _register_credentials
fields_entered(new_username, new_name, new_password) ==
    Len(new_username) # 0 /\ Len(new_name) # 0 /\ Len(new_password) > 0

\* _register_credentials: the store and the preauthorized dict it leaves,
\* and the status it returns
_register_credentials(creds, preauth, preauthorization, registered_email, new_username, new_name, new_password, new_password_repeat, salt) ==
    IF fields_entered(new_username, new_name, new_password)
    THEN IF new_username \notin DOMAIN creds
         THEN IF passwords_match(new_password, new_password_repeat)
              THEN [creds |-> (new_username :> [name |-> new_name,
                                                password |-> Hasher(salt, new_password),
                                                email |-> registered_email]) @@ creds,
                    preauth |-> IF preauthorization
                                THEN << Remove(preauth[1], registered_email) >>
                                ELSE preauth,
                    status |-> "User registered successfully"]
              ELSE [creds |-> creds, preauth |-> preauth,
                    status |-> "Passwords do not match"]
         ELSE [creds |-> creds, preauth |-> preauth, status |-> "Username already taken"]
    ELSE [creds |-> creds, preauth |-> preauth,
          status |-> "Please enter a new username, name, and password"]

\* `if not self.preauthorized` at the head of register_user
preauthorized_missing(preauth) == Len(preauth) = 0

\* register_user(form_name, location, preauthorization): the store and the
\* preauthorized dict it leaves, and its outcome
register_user_result(creds, preauth, location, preauthorization, submit, registered_email, username_in, new_name, new_password, new_password_repeat, salt) ==
    LET c0 == [NoCall EXCEPT !.op = "register_user"]
        new_username == Lower(username_in)
    IN
    IF preauthorized_missing(preauth)
    THEN [creds |-> creds, preauth |-> preauth, call |-> [c0 EXCEPT !.raised = "ValueError"]]
    ELSE IF ~valid_location(location)
    THEN [creds |-> creds, preauth |-> preauth, call |-> [c0 EXCEPT !.raised = "ValueError"]]
    ELSE IF submit
    THEN IF preauthorization
         THEN IF Contains(preauth[1], registered_email)
              THEN LET r == _register_credentials(creds, preauth, preauthorization,
                                registered_email, new_username, new_name, new_password,
                                new_password_repeat, salt)
                   IN [creds |-> r.creds, preauth |-> r.preauth,
                       call |-> [c0 EXCEPT !.submit = TRUE, !.status = r.status]]
              ELSE [creds |-> creds, preauth |-> preauth,
                    call |-> [c0 EXCEPT !.submit = TRUE,
                                        !.status = "User not authorized to register"]]
         ELSE LET r == _register_credentials(creds, preauth, preauthorization,
                           registered_email, new_username, new_name, new_password,
                           new_password_repeat, salt)
              IN [creds |-> r.creds, preauth |-> r.preauth,
                  call |-> [c0 EXCEPT !.submit = TRUE, !.status = r.status]]
    ELSE [creds |-> creds, preauth |-> preauth, call |-> c0]

RegisterInputs ==
    { i \in [location : Locations, preauthorization : BOOLEAN, submit : BOOLEAN,
             registered_email : Emails, username : Usernames,
             new_name : Names, new_password : Passwords,
             new_password_repeat : Passwords] :
        /\ NotPressed(i.location = "main", i.submit)
        /\ <<i.new_password, i.new_password_repeat>> \in PasswordPairs
        /\ Unread(i.submit, {i.username, i.new_name,
                             i.new_password, i.new_password_repeat})
        /\ i.submit \/ i.registered_email = <<"e">> }

register_user ==
    \E i \in RegisterInputs, salt \in GenSalts :
      LET r == register_user_result(credentials, preauthorized, i.location,
                                    i.preauthorization, i.submit, i.registered_email,
                                    i.username, i.new_name, i.new_password,
                                    i.new_password_repeat, salt) IN
      /\ credentials' = r.creds
      /\ preauthorized' = r.preauth
      /\ call' = r.call
      /\ UNCHANGED <<session_state, cookie, now, random_password>>

\* ------------------------------------------------------ forgot_password
\* faulty variant of _set_password: the password is generated before the username is
\* looked up
_set_password_generates_first(creds, old_random_password, username, generated, salt) ==
    IF username \in DOMAIN creds
    THEN [creds |-> [creds EXCEPT ![username].password = Hasher(salt, generated)],
          random_password |-> generated, ret |-> generated]
    ELSE [creds |-> creds, random_password |-> generated, ret |-> None]

\* faulty variant of _set_password: the generated password is returned but its
\* hash is not stored
_set_password_keeps_hash(creds, old_random_password, username, generated, salt) ==
    IF username \in DOMAIN creds
    THEN [creds |-> creds, random_password |-> generated, ret |-> generated]
    ELSE [creds |-> creds, random_password |-> old_random_password, ret |-> None]

\* _set_password: the store and self.random_password it leaves, and what it
\* returns (None when the username is unknown)
_set_password(creds, old_random_password, username, generated, salt) ==
    IF username \in DOMAIN creds
    THEN [creds |-> [creds EXCEPT ![username].password = Hasher(salt, generated)],
          random_password |-> generated, ret |-> generated]
    ELSE [creds |-> creds, random_password |-> old_random_password, ret |-> None]

\* forgot_password(form_name, location): the store and self.random_password
\* it leaves, and its outcome
forgot_password_result(creds, old_random_password, location, submit, username_in, generated, salt) ==
    LET c0 == [NoCall EXCEPT !.op = "forgot_password"]
        username == Lower(username_in)
    IN
    IF ~valid_location(location)
    THEN [creds |-> creds, random_password |-> old_random_password,
          call |-> [c0 EXCEPT !.raised = "ValueError"]]
    ELSE IF submit
    THEN LET r == _set_password(creds, old_random_password, username, generated, salt) IN
         IF r.ret # None /\ Len(r.ret) > 0
         THEN [creds |-> r.creds, random_password |-> r.random_password,
               call |-> [c0 EXCEPT !.submit = TRUE,
                                   !.ret = <<username, r.creds[username].email,
                                             r.random_password>>]]
         ELSE [creds |-> r.creds, random_password |-> r.random_password,
               call |-> [c0 EXCEPT !.submit = TRUE, !.status = "Username not found",
                                   !.ret = <<None, None, None>>]]
    ELSE [creds |-> creds, random_password |-> old_random_password,
          call |-> [c0 EXCEPT !.ret = <<None, None, None>>]]

ForgotInputs ==
    { i \in [location : Locations, submit : BOOLEAN, username : Usernames] :
        /\ NotPressed(i.location = "main", i.submit)
        /\ Unread(i.submit, {i.username}) }

forgot_password ==
    \E i \in ForgotInputs, generated \in RandomPasswords, salt \in GenSalts :
      LET r == forgot_password_result(credentials, random_password, i.location,
                                      i.submit, i.username, generated, salt) IN
      /\ credentials' = r.creds
      /\ random_password' = r.random_password
      /\ call' = r.call
      /\ UNCHANGED <<preauthorized, session_state, cookie, now>>

\* ---------------------------------------------------------- environment
\* datetime.utcnow() moves on
tick ==
    /\ now < MaxTime
    /\ now' = now + 1
    /\ call' = [NoCall EXCEPT !.op = "tick"]
    /\ UNCHANGED <<credentials, preauthorized, session_state, cookie, random_password>>

\* a new browser session: st.session_state starts empty and __init__ fills it;
\* the cookie stays with the browser
new_session ==
    /\ session_state' = NewSessionState
    /\ call' = [NoCall EXCEPT !.op = "new_session"]
    /\ UNCHANGED <<credentials, preauthorized, cookie, now, random_password>>

\* cookie values the browser may hold that login never issued: text that is
\* no JWT, a token signed with another key, tokens signed with the key that
\* lack a field
ForeignCookies ==
    { [wellformed |-> FALSE, key |-> Key,
       payload |-> [name |-> <<"X">>, username |-> <<"a">>, exp_date |-> MaxTime + 1]],
      [wellformed |-> TRUE, key |-> OtherKey,
       payload |-> [name |-> <<"X">>, username |-> <<"a">>, exp_date |-> MaxTime + 1]],
      [wellformed |-> TRUE, key |-> Key,
       payload |-> [name |-> <<"X">>, username |-> <<"a">>]],
      [wellformed |-> TRUE, key |-> Key,
       payload |-> [username |-> <<"a">>, exp_date |-> MaxTime + 1]],
      [wellformed |-> TRUE, key |-> Key,
       payload |-> [name |-> <<"X">>, exp_date |-> MaxTime + 1]] }

\* the tokens a login in another session of the same browser has issued by
\* time t: for a user of the store, at some time up to t
OtherSessionTokens(creds, t) ==
    { _token_encode([name |-> creds[u].name, username |-> u], _set_exp_date(t0)) :
        u \in DOMAIN creds, t0 \in 0..t }

\* the browser presents another cookie, or none: what cookie_manager.get returns
browser_cookie ==
    /\ \/ cookie' = <<>>
       \/ \E token \in ForeignCookies : cookie' = <<token>>
       \/ \E token \in OtherSessionTokens(credentials, now) : cookie' = <<token>>
    /\ call' = [NoCall EXCEPT !.op = "browser_cookie"]
    /\ UNCHANGED <<credentials, preauthorized, session_state, now, random_password>>

Next ==
    \/ login
    \/ logout
    \/ reset_password
    \/ register_user
    \/ forgot_password
    \/ tick
    \/ new_session
    \/ browser_cookie

Spec == Init /\ [][Next]_vars

\* the session widgets alone, over the store the caller configured
NextSession ==
    \/ login
    \/ logout
    \/ tick
    \/ new_session
    \/ browser_cookie

InitSession == Init /\ preauthorized = <<>>

SpecSession == InitSession /\ [][NextSession]_vars

\* the widgets that change the credentials store, in one session
NextStore ==
    \/ register_user
    \/ reset_password
    \/ forgot_password

SpecStore == Init /\ [][NextStore]_vars

\* one session of one user account: every widget, over a store that starts
\* with the single user a and a preauthorized list that is present and empty
NextAccount ==
    \/ login
    \/ logout
    \/ register_user
    \/ reset_password
    \/ forgot_password

InitAccount ==
    Init /\ preauthorized = << <<>> >> /\ DOMAIN credentials = {<<"a">>}

SpecAccount == InitAccount /\ [][NextAccount]_vars

\* ================================================================ claims
\* what login, given the form values i, makes of the current state
LoginOutcome(i) ==
    login_result(credentials, session_state, cookie, now,
                 i.location, i.submit, i.username, i.password)

\* the stored value is a bcrypt hash of the password
PasswordMatches(hashed, pw) ==
    hashed.salt \in Salts /\ hashed.digest = Digest(hashed.salt, pw)

\* the token carries a signature made with the configured key
SignatureVerifies(token) == token.wellformed /\ token.key = Key

\* a token as login issues it: signed with the key, carrying all three fields
IssuedToken(token) ==
    SignatureVerifies(token) /\ DOMAIN token.payload = {"name", "username", "exp_date"}

\* C1: whenever the logout button is pressed with a valid location, from any
\* reachable session state and cookie, name, username and
\* authentication_status are None afterwards, the logout flag is True and the
\* cookie is deleted.
C1_LogoutClears ==
    /\ \A location \in {"main", "sidebar"} :
         LET r == logout_result(session_state, cookie, location, TRUE) IN
         /\ r.ss.name = None
         /\ r.ss.username = None
         /\ r.ss.authentication_status = "None"
         /\ r.ss.logout = "True"
         /\ Len(r.cookie) = 0
         /\ r.call.raised = ""
    /\ (call.op = "logout" /\ call.submit) =>
         /\ session_state = [name |-> None, authentication_status |-> "None",
                             username |-> None, logout |-> "True"]
         /\ Len(cookie) = 0

C1_Witness ==
    /\ call.op = "logout" /\ call.submit
    /\ session_state.logout = "True" /\ session_state.authentication_status = "None"
    /\ Len(cookie) = 0

C3_TokenExpiry ==
    /\ \A i \in LoginInputs :
         LET r == LoginOutcome(i) IN
         (r.call.submit /\ r.ss.authentication_status = "True") =>
           /\ Len(r.cookie) = 1
           /\ IssuedToken(r.cookie[1])
           /\ r.cookie[1].payload =
                [name |-> credentials[Lower(i.username)].name,
                 username |-> Lower(i.username),
                 exp_date |-> now + ExpiryDays]
    /\ ( /\ Len(cookie) = 1
         /\ IssuedToken(cookie[1])
         /\ session_state.authentication_status # "True"
         /\ session_state.logout # "True" ) =>
         LET token == cookie[1].payload
             t == token.exp_date - ExpiryDays
         IN \A i \in LoginInputs :
              LET r == LoginOutcome(i) IN
              valid_location(i.location) =>
                /\ (now < t + ExpiryDays) =>
                     /\ r.ss.authentication_status = "True"
                     /\ r.ss.name = token.name
                     /\ r.ss.username = token.username
                /\ (now > t + ExpiryDays /\ ~i.submit) =>
                     r.ss.authentication_status # "True"

\* login read the cookie of a session that a token issued earlier then
\* authenticated without a submission
C3_Witness ==
    /\ call.op = "login" /\ call.cookie_read /\ ~call.submit
    /\ session_state.authentication_status = "True"
    /\ Len(cookie) = 1 /\ IssuedToken(cookie[1])
    /\ cookie[1].payload.exp_date - ExpiryDays < now
    /\ session_state.name = cookie[1].payload.name

\* C4: authentication_status changes to True only in a login, and only
\* (a) on a submitted form whose username is in the store and whose password
\* matches the stored hash, or (b) on a cookie whose signature verifies under
\* the key and whose expiry is later than the current time.
C4_OnlyValidLogin ==
    /\ [](\A i \in LoginInputs :
            LET r == LoginOutcome(i)
                u == Lower(i.username)
            IN (session_state.authentication_status # "True"
                /\ r.ss.authentication_status = "True") =>
                 \/ /\ r.call.submit
                    /\ u \in DOMAIN credentials
                    /\ PasswordMatches(credentials[u].password, i.password)
                 \/ /\ Len(cookie) = 1
                    /\ SignatureVerifies(cookie[1])
                    /\ "exp_date" \in DOMAIN cookie[1].payload
                    /\ cookie[1].payload.exp_date > now)
    /\ [][(session_state.authentication_status # "True"
           /\ session_state'.authentication_status = "True") => call'.op = "login"]_vars

\* a session was authenticated by its cookie
C4_Witness ==
    /\ call.op = "login" /\ call.cookie_read /\ ~call.submit
    /\ session_state.authentication_status = "True"
    /\ Len(cookie) = 1 /\ SignatureVerifies(cookie[1])
    /\ cookie[1].payload.exp_date > now

\* C8 as stated: after a logout, login never authenticates the session from
\* the cookie until an explicit submission succeeds, and a successful explicit
\* login clears the logout flag.
C8_Original ==
    /\ (session_state.logout = "True" /\ session_state.authentication_status # "True") =>
         \A i \in LoginInputs :
           ~i.submit => LoginOutcome(i).ss.authentication_status # "True"
    /\ \A i \in LoginInputs :
         LET r == LoginOutcome(i) IN
         (r.call.submit /\ r.ss.authentication_status = "True") => r.ss.logout # "True"

\* what register_user, given the form values i and the salt bcrypt draws,
\* makes of the current state
RegisterOutcome(i, salt) ==
    register_user_result(credentials, preauthorized, i.location, i.preauthorization,
                         i.submit, i.registered_email, i.username, i.new_name,
                         i.new_password, i.new_password_repeat, salt)

\* what forgot_password makes of the current state
ForgotOutcome(i, generated, salt) ==
    forgot_password_result(credentials, random_password, i.location, i.submit,
                           i.username, generated, salt)

\* C5 as stated: a submitted registration whose lowercased username is in the
\* store yields 'Username already taken' whatever the name, the password and
\* its repetition are, and leaves the store unchanged.
C5_Original ==
    \A i \in RegisterInputs, salt \in GenSalts :
      LET r == RegisterOutcome(i, salt) IN
      (r.call.submit /\ Lower(i.username) \in DOMAIN credentials) =>
        /\ r.call.status = "Username already taken"
        /\ r.creds = credentials

\* C5 (amended): a submitted registration whose lowercased username is in the
\* store, whose name and password fields are not empty and which is let
\* through to the store (preauthorization off, or the email on the
\* preauthorized list) yields 'Username already taken' whether or not the
\* passwords match; with an empty name or password it yields 'Please enter a
\* new username, name, and password', with an email that is not preauthorized
\* 'User not authorized to register'; in every case the store is unchanged.
C5_DuplicateUsername ==
    \A i \in RegisterInputs, salt \in GenSalts :
      LET r == RegisterOutcome(i, salt) IN
      (r.call.submit /\ Lower(i.username) \in DOMAIN credentials) =>
        /\ r.creds = credentials
        /\ r.preauth = preauthorized
        /\ r.call.status =
             IF i.preauthorization /\ ~Contains(preauthorized[1], i.registered_email)
             THEN "User not authorized to register"
             ELSE IF Len(i.new_name) = 0 \/ Len(i.new_password) = 0
             THEN "Please enter a new username, name, and password"
             ELSE "Username already taken"

\* a registration was refused because the username A is taken by a
C5_Witness ==
    /\ call.op = "register_user" /\ call.submit
    /\ call.status = "Username already taken"
    /\ DOMAIN credentials = {<<"a">>}

\* C6: a submitted registration whose password and repetition differ never
\* reports 'User registered successfully' and changes neither the store nor
\* the preauthorized list, whatever the username, name, email and
\* preauthorization setting.
C6_MismatchNeverRegisters ==
    \A i \in RegisterInputs, salt \in GenSalts :
      LET r == RegisterOutcome(i, salt) IN
      (r.call.submit /\ i.new_password # i.new_password_repeat) =>
        /\ r.call.status # "User registered successfully"
        /\ r.creds = credentials
        /\ r.preauth = preauthorized

C6_Witness ==
    /\ call.op = "register_user" /\ call.submit
    /\ call.status = "Passwords do not match"

\* C7: a submitted forgot_password for a username that is not in the store
\* returns (None, None, None), generates no password and leaves the store
\* unchanged.
C7_ForgotUnknown ==
    \A i \in ForgotInputs, generated \in RandomPasswords, salt \in GenSalts :
      LET r == ForgotOutcome(i, generated, salt) IN
      (r.call.submit /\ Lower(i.username) \notin DOMAIN credentials) =>
        /\ r.call.ret = <<None, None, None>>
        /\ r.random_password = random_password
        /\ r.creds = credentials

C7_Witness ==
    /\ call.op = "forgot_password" /\ call.submit
    /\ call.status = "Username not found"
    /\ call.ret = <<None, None, None>>

\* the text has no uppercase letter
IsLowercase(text) == \A n \in 1..Len(text) : text[n] \notin {"A", "B"}

\* the two texts are equal up to the case of their letters
EqualIgnoringCase(s1, s2) ==
    /\ Len(s1) = Len(s2)
    /\ \A n \in 1..Len(s1) :
         s1[n] = s2[n] \/ {s1[n], s2[n]} \in {{"a", "A"}, {"b", "B"}}

\* C9: every key of the store is lowercase and no two keys are equal ignoring
\* case, in every state the store widgets reach from the constructed object;
\* a registration whose username differs only in case from a key adds no entry.
C9_LowercaseUniqueKeys ==
    /\ \A k \in DOMAIN credentials : IsLowercase(k)
    /\ \A k1, k2 \in DOMAIN credentials : EqualIgnoringCase(k1, k2) => k1 = k2
    /\ \A i \in RegisterInputs, salt \in GenSalts :
         LET r == RegisterOutcome(i, salt) IN
         (\E k \in DOMAIN credentials : EqualIgnoringCase(k, i.username)) =>
           DOMAIN r.creds = DOMAIN credentials

\* the registration of A was refused while a is the only key
C9_Witness ==
    /\ call.op = "register_user" /\ call.submit
    /\ call.status = "Username already taken"
    /\ DOMAIN credentials = {<<"a">>}
    /\ random_password = None

\* C10 as stated: with preauthorization=False a submission with non-empty
\* username, name and password, an unused username and matching passwords
\* succeeds whatever the preauthorized list is, None included, and leaves the
\* preauthorized list unchanged.
C10_Original ==
    \A i \in RegisterInputs, salt \in GenSalts :
      LET r == RegisterOutcome(i, salt) IN
      ( /\ i.location = "main" /\ i.submit /\ ~i.preauthorization
        /\ Len(i.username) > 0 /\ Len(i.new_name) > 0 /\ Len(i.new_password) > 0
        /\ Lower(i.username) \notin DOMAIN credentials
        /\ i.new_password = i.new_password_repeat ) =>
        /\ r.call.raised = ""
        /\ r.call.status = "User registered successfully"
        /\ Lower(i.username) \in DOMAIN r.creds
        /\ r.preauth = preauthorized

\* C11 as stated: with preauthorization on, a registration succeeds only if
\* its email is in the preauthorized list, the successful registration
\* removes that email from the list (so the email cannot be used for a second
\* registration), and a registration that fails leaves the list as it was.
C11_Original ==
    \A i \in RegisterInputs, salt \in GenSalts :
      LET r == RegisterOutcome(i, salt) IN
      (i.preauthorization /\ r.call.submit) =>
        IF r.call.status = "User registered successfully"
        THEN /\ Contains(preauthorized[1], i.registered_email)
             /\ ~Contains(r.preauth[1], i.registered_email)
        ELSE r.preauth = preauthorized

\* what reset_password makes of the current state
ResetOutcome(i, salt) ==
    reset_password_result(credentials, i.location, i.submit, i.username, i.password,
                          i.new_password, i.new_password_repeat, salt)

\* C12: a submitted reset_password overwrites the stored hash of the named
\* user only when the current password verifies against that user's stored
\* hash, the new password is non-empty and it equals its repetition; then the
\* new password verifies for that user and nothing else in the store has
\* changed. In every other case the store is unchanged and the status is
\* 'Username/password is incorrect', 'Please enter a new password' or
\* 'Passwords do not match', in this order of precedence.
C12_ResetPassword ==
    \A i \in ResetInputs, salt \in GenSalts :
      LET r == ResetOutcome(i, salt)
          u == Lower(i.username)
          verified == u \in DOMAIN credentials
                      /\ PasswordMatches(credentials[u].password, i.password)
      IN r.call.submit =>
           IF verified /\ Len(i.new_password) > 0
              /\ i.new_password = i.new_password_repeat
           THEN /\ r.call.status = "Password reset successfully"
                /\ DOMAIN r.creds = DOMAIN credentials
                /\ PasswordMatches(r.creds[u].password, i.new_password)
                /\ r.creds[u].name = credentials[u].name
                /\ r.creds[u].email = credentials[u].email
                /\ \A v \in DOMAIN credentials \ {u} : r.creds[v] = credentials[v]
           ELSE /\ r.creds = credentials
                /\ r.call.status =
                     IF ~verified THEN "Username/password is incorrect"
                     ELSE IF Len(i.new_password) = 0 THEN "Please enter a new password"
                     ELSE "Passwords do not match"

\* the password of X was reset to q
C12_Witness ==
    /\ call.op = "reset_password" /\ call.submit
    /\ call.status = "Password reset successfully"
    /\ \E u \in DOMAIN credentials :
         /\ credentials[u].name = <<"X">>
         /\ PasswordMatches(credentials[u].password, <<"q">>)

\* a cookie that must not authenticate: text that is no token, a token signed
\* with another key, a token that lacks a field, a token that has expired
RejectedCookie(ck, t) ==
    /\ Len(ck) = 1
    /\ \/ ~SignatureVerifies(ck[1])
       \/ DOMAIN ck[1].payload # {"name", "username", "exp_date"}
       \/ ck[1].payload.exp_date <= t

\* C13 as stated: with a cookie that is malformed, signed with another key,
\* expired or lacking the expiry, name or username field, login called with a
\* valid location in a session that is not authenticated does not raise and
\* leaves the session state and the outcome it would leave with no cookie.
C13_Original ==
    \A i \in LoginInputs :
      ( /\ valid_location(i.location)
        /\ session_state.authentication_status # "True"
        /\ RejectedCookie(cookie, now) ) =>
        LET r == LoginOutcome(i)
            absent == login_result(credentials, session_state, <<>>, now,
                                   i.location, i.submit, i.username, i.password)
        IN /\ r.call.raised = ""
           /\ r.ss = absent.ss
           /\ r.call = absent.call

\* the form names a user of the store whose stored value makes the check raise
CheckRaises(username_in) ==
    /\ Lower(username_in) \in DOMAIN credentials
    /\ checkpw_raises(credentials[Lower(username_in)].password)

\* a submitted login whose credential check raises does not raise itself,
\* leaves the session unauthenticated with name None and sets no cookie
C14_LoginPart ==
    \A i \in LoginInputs :
      LET r == LoginOutcome(i) IN
      (r.call.submit /\ CheckRaises(i.username)) =>
        /\ r.call.raised = ""
        /\ r.ss.authentication_status # "True"
        /\ r.ss.name = None
        /\ r.cookie = cookie

\* reset_password writes neither st.session_state nor the cookie, and login
\* does not write the store
C14_Frame ==
    /\ call'.op = "reset_password" => (session_state' = session_state /\ cookie' = cookie)
    /\ call'.op = "login" => credentials' = credentials

\* C14 as stated: when the credential check raises during a submitted login
\* or a submitted reset_password, the widget does not raise, the session is
\* unauthenticated afterwards (authentication_status not True, name None), no
\* cookie is set and the store is unchanged. reset_password leaves the
\* session state as it finds it, so the session it ends in is the one it is
\* submitted in.
C14_Original ==
    /\ C14_LoginPart
    /\ \A i \in ResetInputs, salt \in GenSalts :
         LET r == ResetOutcome(i, salt) IN
         (r.call.submit /\ CheckRaises(i.username)) =>
           /\ r.call.raised = ""
           /\ r.creds = credentials
           /\ session_state.authentication_status # "True"
           /\ session_state.name = None

\* a submitted reset_password whose credential check raises does not raise
\* itself, reports 'Username/password is incorrect' and leaves the store
C14_ResetPart ==
    \A i \in ResetInputs, salt \in GenSalts :
      LET r == ResetOutcome(i, salt) IN
      (r.call.submit /\ CheckRaises(i.username)) =>
        /\ r.call.raised = ""
        /\ r.call.status = "Username/password is incorrect"
        /\ r.creds = credentials

\* C14 (amended): when the credential check raises during a submitted login,
\* login does not raise, the session is unauthenticated afterwards
\* (authentication_status not True, name None), no cookie is set and the
\* store is unchanged. When it raises during a submitted reset_password,
\* reset_password does not raise, reports 'Username/password is incorrect'
\* and leaves the store, the cookie and the session state as they were, so a
\* session that was authenticated stays authenticated.
C14_CheckRaises ==
    /\ []C14_LoginPart
    /\ []C14_ResetPart
    /\ [][C14_Frame]_vars

\* a reset_password for the user whose stored value is no hash was refused
\* while another user is logged in
C14_Witness ==
    /\ call.op = "reset_password" /\ call.submit
    /\ call.status = "Username/password is incorrect"
    /\ session_state.authentication_status = "True"
    /\ \E u \in DOMAIN credentials :
         checkpw_raises(credentials[u].password) /\ u # session_state.username

\* a location argument that is neither 'main' nor 'sidebar'
BadLocation(location) == location \notin {"main", "sidebar"}

\* whatever state the five widgets are called in, a bad location makes each
\* of them raise ValueError and hand back the state it was given
C15_Raises ==
    /\ \A i \in LoginInputs :
         BadLocation(i.location) =>
           LET r == LoginOutcome(i) IN
           /\ r.call.raised = "ValueError" /\ ~r.call.cookie_read
           /\ r.ss = session_state /\ r.cookie = cookie
    /\ \A i \in LogoutInputs :
         BadLocation(i.location) =>
           LET r == logout_result(session_state, cookie, i.location, i.pressed) IN
           /\ r.call.raised = "ValueError"
           /\ r.ss = session_state /\ r.cookie = cookie
    /\ \A i \in ResetInputs, salt \in GenSalts :
         BadLocation(i.location) =>
           LET r == ResetOutcome(i, salt) IN
           r.call.raised = "ValueError" /\ r.creds = credentials
    /\ \A i \in RegisterInputs, salt \in GenSalts :
         BadLocation(i.location) =>
           LET r == RegisterOutcome(i, salt) IN
           /\ r.call.raised = "ValueError"
           /\ r.creds = credentials /\ r.preauth = preauthorized
    /\ \A i \in ForgotInputs, generated \in RandomPasswords, salt \in GenSalts :
         BadLocation(i.location) =>
           LET r == ForgotOutcome(i, generated, salt) IN
           /\ r.call.raised = "ValueError"
           /\ r.creds = credentials /\ r.random_password = random_password

\* C15: login, logout, reset_password, register_user and forgot_password
\* called with a location other than 'main' or 'sidebar' raise ValueError,
\* and the call that raised has changed neither the session state, nor the
\* store, nor the preauthorized list, nor the cookie.
C15_BadLocation ==
    /\ []C15_Raises
    /\ [][ call'.raised = "ValueError" =>
             UNCHANGED <<session_state, credentials, preauthorized, cookie,
                         random_password>> ]_vars

\* register_user raised on its location in an authenticated session whose
\* store has a second user
C15_Witness ==
    /\ call.op = "register_user" /\ call.raised = "ValueError"
    /\ Len(preauthorized) = 1
    /\ session_state.authentication_status = "True"
    /\ Len(cookie) = 1
    /\ DOMAIN credentials = {<<"a">>, <<"b">>}

\* in an authenticated session login with a valid location returns the
\* current (name, True, username) and hands back the state it was given
C16_Outcome ==
    session_state.authentication_status = "True" =>
      \A i \in LoginInputs :
        i.location \in {"main", "sidebar"} =>
          LET r == LoginOutcome(i) IN
          /\ r.call.raised = ""
          /\ ~r.call.cookie_read
          /\ ~r.call.submit
          /\ r.call.ret = <<session_state.name, "True", session_state.username>>
          /\ r.ss = session_state
          /\ r.cookie = cookie

\* C16: when authentication_status is True, login called with a valid
\* location changes neither the session state (name, username,
\* authentication_status, logout flag) nor the cookie nor the store, does not
\* read the cookie, and returns the current (name, True, username).
C16_LoginNoOp ==
    /\ []C16_Outcome
    /\ [][ ( /\ session_state.authentication_status = "True"
             /\ call'.op = "login" /\ call'.raised = "" ) =>
             /\ UNCHANGED <<session_state, cookie, credentials>>
             /\ ~call'.cookie_read
             /\ call'.ret = <<session_state.name, "True", session_state.username>>
          ]_vars

\* login returned in an authenticated session without reading the cookie,
\* while the browser holds a token of another user
C16_Witness ==
    /\ call.op = "login" /\ call.raised = "" /\ ~call.cookie_read
    /\ session_state.authentication_status = "True"
    /\ call.ret = <<session_state.name, "True", session_state.username>>
    /\ Len(cookie) = 1 /\ IssuedToken(cookie[1])
    /\ cookie[1].payload.username # session_state.username

\* C17: a submitted forgot_password for a username of the store returns
\* (username, the user's email, the new password); afterwards the returned
\* password verifies against the user's stored hash, a password that
\* verified before and differs from the new one no longer does, the user's
\* name and email are as before and no other entry of the store has changed.
C17_ForgotKnown ==
    \A i \in ForgotInputs, generated \in RandomPasswords, salt \in GenSalts :
      LET r == ForgotOutcome(i, generated, salt)
          u == Lower(i.username)
      IN (r.call.submit /\ u \in DOMAIN credentials) =>
           /\ r.call.raised = ""
           /\ r.call.ret = <<u, credentials[u].email, generated>>
           /\ DOMAIN r.creds = DOMAIN credentials
           /\ PasswordMatches(r.creds[u].password, generated)
           /\ _check_credentials_bool(r.creds, u, generated) = "True"
           /\ \A old \in Passwords \cup RandomPasswords :
                (PasswordMatches(credentials[u].password, old) /\ old # generated) =>
                  /\ ~PasswordMatches(r.creds[u].password, old)
                  /\ _check_credentials_bool(r.creds, u, old) = "False"
           /\ r.creds[u].name = credentials[u].name
           /\ r.creds[u].email = credentials[u].email
           /\ \A v \in DOMAIN credentials \ {u} : r.creds[v] = credentials[v]

\* forgot_password returned a new password for a: it verifies, p no longer does
C17_Witness ==
    /\ call.op = "forgot_password" /\ call.submit
    /\ call.ret = <<<<"a">>, <<"e">>, random_password>>
    /\ random_password \in RandomPasswords
    /\ PasswordMatches(credentials[<<"a">>].password, random_password)
    /\ ~PasswordMatches(credentials[<<"a">>].password, <<"p">>)

\* C18 as stated: in every reachable state name and username are non-None
\* exactly when authentication_status is True, and the triple login returns
\* names no user (name and username None) unless its status is True.
C18_Original ==
    /\ (session_state.authentication_status = "True") <=> (session_state.name # None)
    /\ (session_state.authentication_status = "True") <=> (session_state.username # None)
    /\ (call.op = "login" /\ call.raised = "" /\ call.ret[2] # "True") =>
         (call.ret[1] = None /\ call.ret[3] = None)

\* C19: within a session, a step of login, register_user, reset_password or
\* forgot_password taken while authentication_status is True leaves it True,
\* whether the submission succeeds or fails and whoever's password it
\* changes; authentication_status leaves True only in a step of logout with
\* the button pressed.
C19_StaysAuthenticated ==
    [][ session_state.authentication_status = "True" =>
          IF call'.op = "logout" /\ call'.submit
          THEN session_state'.authentication_status = "None"
          ELSE session_state'.authentication_status = "True" ]_vars

\* the password of the logged-in user, the only user of the store, has just
\* been reset and the session is still authenticated
C19_Witness ==
    /\ call.op = "reset_password" /\ call.submit
    /\ call.status = "Password reset successfully"
    /\ session_state.authentication_status = "True"
    /\ DOMAIN credentials = {session_state.username}
    /\ Len(cookie) = 1

\* the stores of a second run that differs from this one in the store only:
\* the user u has changed password through reset_password or
\* forgot_password, u is not in the store, or the store is empty
OtherStores(u) ==
    { reset_password_result(credentials, "main", TRUE, u, pw, new, new, salt).creds :
        pw \in Passwords, new \in Passwords \ {<<>>}, salt \in GenSalts }
    \cup { forgot_password_result(credentials, random_password, "main", TRUE, u,
                                  generated, salt).creds :
             generated \in RandomPasswords, salt \in GenSalts }
    \cup { [v \in DOMAIN credentials \ {u} |-> credentials[v]],
           [v \in {} |-> UserX] }

\* the cookie holds a token signed with the key, with its three fields, that
\* has not expired
ValidCookie(ck, t) ==
    Len(ck) = 1 /\ IssuedToken(ck[1]) /\ ck[1].payload.exp_date > t

\* C20: when login is called with a valid location in a session that is not
\* authenticated and whose logout flag is unset, and the cookie holds a
\* validly signed unexpired token, the session is authenticated with the
\* token's name and username, and login leaves the same session state,
\* cookie and outcome in a run whose store differs (the token's user has
\* changed password, or is not in the store).
C20_CookieIgnoresStore ==
    ( /\ session_state.authentication_status # "True"
      /\ session_state.logout # "True"
      /\ ValidCookie(cookie, now) ) =>
      \A i \in LoginInputs :
        i.location \in {"main", "sidebar"} =>
          LET token == cookie[1].payload
              r == LoginOutcome(i)
          IN /\ r.call.raised = ""
             /\ r.ss.authentication_status = "True"
             /\ r.ss.name = token.name
             /\ r.ss.username = token.username
             /\ \A other \in OtherStores(token.username) :
                  LET r2 == login_result(other, session_state, cookie, now, i.location,
                                         i.submit, i.username, i.password)
                  IN r2.ss = r.ss /\ r2.cookie = r.cookie /\ r2.call = r.call

\* login has authenticated the session from the cookie for a user whose
\* stored value is no hash, whom no password would have logged in
C20_Witness ==
    /\ call.op = "login" /\ call.cookie_read /\ ~call.submit
    /\ call.ret = <<session_state.name, "True", session_state.username>>
    /\ session_state.authentication_status = "True"
    /\ ValidCookie(cookie, now)
    /\ session_state.username = cookie[1].payload.username
    /\ session_state.username \in DOMAIN credentials
    /\ checkpw_raises(credentials[session_state.username].password)

====
